---- MODULE Spec2Model ----
(***************************************************************************)
(* Model of the `helm istio-upgrade` command (cmd/helm/istio_upgrade.go):  *)
(* the canary rollout driver istioUpgradeCmd.run() and the release store   *)
(* it drives through helm.Interface.                                       *)
(*                                                                         *)
(* A configuration (chart values, release config, parsed overrides) is a   *)
(* function from keys to values.  A key is the tuple of the segments of a  *)
(* dotted path ("vx.trafficWeight" is <<"vx", "trafficWeight">>).  A value  *)
(* is a tagged record; numbers are kept in halves so that the float64 ->   *)
(* int conversion of replicaCount is a real conversion.                    *)
(***************************************************************************)
EXTENDS Integers, Sequences, FiniteSets, TLC

\* ------------------------------------------------------------------ bounds
MaxReplicas == 3     \* stored replicaCount ranges over 1..MaxReplicas
MaxRuns == 2         \* successive invocations of the command per process
MaxValues == 1       \* number of --set entries on the command line

Procs == {1, 2}

\* ------------------------------------------------------------------ values
Str(x) == [kind |-> "string", s |-> x, h |-> 0]
Half(x) == [kind |-> "number", s |-> "", h |-> x]
Num(x) == Half(2 * x)
Nil == [kind |-> "nil", s |-> "", h |-> 0]

EmptyConfig == [k \in {} |-> Nil]

\* Go map index: a missing key yields the nil interface
Get(cfg, k) == IF k \in DOMAIN cfg THEN cfg[k] ELSE Nil

\* later configuration wins, key by key
Merge(base, over) ==
    [k \in (DOMAIN base) \cup (DOMAIN over) |->
        IF k \in DOMAIN over THEN over[k] ELSE base[k]]

CurrentVersionKey == <<"currentVersion">>
ReplicaCountKey == <<"replicaCount">>
TrafficWeightKey(label) == <<label, "trafficWeight">>
VariantReplicaKey(label) == <<label, "replicaCount">>

\* int(float64): truncation toward zero
ToInt(v) == IF v.h >= 0 THEN v.h \div 2 ELSE -((-v.h) \div 2)

\* ------------------------------------------------------------------ errors
NoErr == [kind |-> "nil", rpc |-> FALSE, prefixed |-> FALSE]
PlainErr(kind) == [kind |-> kind, rpc |-> FALSE, prefixed |-> FALSE]
\* an error of the client library: a gRPC status error
RpcErr(kind) == [kind |-> kind, rpc |-> TRUE, prefixed |-> FALSE]

\* prettyError: a gRPC status error is reduced to its message, everything
\* else is returned as it is
prettyError(e) == [e EXCEPT !.rpc = FALSE]

\* fmt.Errorf("UPGRADE FAILED: %v", e)
UpgradeFailed(e) == [e EXCEPT !.prefixed = TRUE]

\* ------------------------------------------------------- override entries
\* One --set string "k1=v1,k2=v2" is the sequence of its pairs.
Pair(key, val) == [k |-> key, v |-> val]

RECURSIVE ParseInto(_, _)
\* strvals.ParseInto: the pairs of one entry, left to right, into base
ParseInto(entry, base) ==
    IF entry = <<>> THEN base
    ELSE ParseInto(Tail(entry),
                   Merge(base, [x \in {Head(entry).k} |-> Head(entry).v]))

RECURSIVE ValsFrom(_, _)
ValsFrom(entries, base) ==
    IF entries = <<>> THEN base
    ELSE ValsFrom(Tail(entries), ParseInto(Head(entries), base))

\* vals(): the --set entries merged in order (no -f, --set-string, --set-file)
vals(entries) == ValsFrom(entries, EmptyConfig)

IsPrefixAt(pat, key, i) ==
    /\ i + Len(pat) - 1 <= Len(key)
    /\ \A j \in 1..Len(pat) : key[i + j - 1] = pat[j]

RECURSIVE ReplaceFrom(_, _, _, _)
\* strings.Replace(key, pat, rep, -1) on path segments, scanning from i
ReplaceFrom(key, pat, rep, i) ==
    IF i > Len(key) THEN <<>>
    ELSE IF IsPrefixAt(pat, key, i)
         THEN rep \o ReplaceFrom(key, pat, rep, i + Len(pat))
         ELSE <<key[i]>> \o ReplaceFrom(key, pat, rep, i + 1)

Replace(key, pat, rep) == ReplaceFrom(key, pat, rep, 1)

\* lines 178-179: image.repository and image.tag get the target prefix
RewriteKey(key, target) ==
    Replace(Replace(key, <<"image", "repository">>,
                    <<target, "image", "repository">>),
            <<"image", "tag">>, <<target, "image", "tag">>)

RewriteEntry(entry, target) ==
    [i \in 1..Len(entry) |-> Pair(RewriteKey(entry[i].k, target), entry[i].v)]

RewriteValues(values, target) ==
    [i \in 1..Len(values) |-> RewriteEntry(values[i], target)]

\* ------------------------------------------------------ rollout schedule
maxSteps == 5
NapSeconds == 60

\* line 299: step++
NextStep_Skipping(step) == step + 2

NextStep(step) == step + 1

LoopContinues_Exclusive(i) == i < maxSteps

\* line 298: the loop condition i <= maxSteps
LoopContinues(i) == i <= maxSteps

targetVersionTraffic_Quarter(step) == 25 * step

targetVersionTraffic(step) == 20 * step
currentVersionTraffic(step) == 100 - targetVersionTraffic(step)

TargetVersionOf_Inverted(currentVersion) ==
    IF currentVersion = "vx" THEN "vx" ELSE "vy"

\* lines 282-286
TargetVersionOf(currentVersion) ==
    IF currentVersion = "vx" THEN "vy" ELSE "vx"

ConfigShapeOK_VersionOnly(values) ==
    Get(values, CurrentVersionKey).kind = "string"

\* the two type assertions of lines 277-278 succeed
ConfigShapeOK(values) ==
    /\ Get(values, CurrentVersionKey).kind = "string"
    /\ Get(values, ReplicaCountKey).kind = "number"

NoOpts == [currentVersion |-> "", targetVersion |-> "", replicaCount |-> 0]

DeriveOptions_FixedLabels(values) ==
    [currentVersion |-> "vx",
     targetVersion |-> "vy",
     replicaCount |-> ToInt(Get(values, ReplicaCountKey))]

\* lines 276-286
DeriveOptions(values) ==
    [currentVersion |-> Get(values, CurrentVersionKey).s,
     targetVersion |-> TargetVersionOf(Get(values, CurrentVersionKey).s),
     replicaCount |-> ToInt(Get(values, ReplicaCountKey))]

\* line 182
DeployEntry(o) ==
    << Pair(VariantReplicaKey(o.targetVersion), Num(o.replicaCount)) >>

TrafficEntry_Swapped(o, step) ==
    << Pair(TrafficWeightKey(o.currentVersion), Num(targetVersionTraffic(step))),
       Pair(TrafficWeightKey(o.targetVersion), Num(currentVersionTraffic(step))) >>

\* line 146
TrafficEntry(o, step) ==
    << Pair(TrafficWeightKey(o.currentVersion), Num(currentVersionTraffic(step))),
       Pair(TrafficWeightKey(o.targetVersion), Num(targetVersionTraffic(step))) >>

WrapUpEntry_Swapped(o) ==
    << Pair(VariantReplicaKey(o.targetVersion), Num(0)),
       Pair(CurrentVersionKey, Str(o.currentVersion)) >>

\* line 218
WrapUpEntry(o) ==
    << Pair(VariantReplicaKey(o.currentVersion), Num(0)),
       Pair(CurrentVersionKey, Str(o.targetVersion)) >>

\* ------------------------------------------------------ release client
\* chartutil.CoalesceValues: the release's config over its chart's defaults
CoalesceValues(chartValues, config) == Merge(chartValues, config)

\* The effect of a successful UpdateRelease on the stored config.
UpdateStore(config, overrides, dryRun, resetValues, reuseValues) ==
    IF dryRun THEN config
    ELSE IF resetValues THEN overrides
    ELSE IF reuseValues THEN Merge(config, overrides)
    ELSE IF overrides = EmptyConfig THEN config
    ELSE overrides

ContentCall ==
    [op |-> "ReleaseContent", phase |-> "content", step |-> 0, vv |-> <<>>,
     overrides |-> EmptyConfig, dryRun |-> FALSE, resetValues |-> FALSE,
     reuseValues |-> FALSE, ok |-> TRUE]

StatusCall == [ContentCall EXCEPT !.op = "ReleaseStatus", !.phase = "status"]

UpdateCall(phase, step, vv, dryRun, resetValues, reuseValues) ==
    [op |-> "UpdateRelease", phase |-> phase, step |-> step, vv |-> vv,
     overrides |-> vals(vv), dryRun |-> dryRun, resetValues |-> resetValues,
     reuseValues |-> reuseValues, ok |-> TRUE]

Failed(call) == [call EXCEPT !.ok = FALSE]

AfterUpdate_IgnoringError(ok, next) == next

\* what run() does after an UpdateRelease returned (lines 159-161, 203-205,
\* 230-232 and the err checks of lines 291, 300, 307)
AfterUpdate(ok, next) == IF ok THEN next ELSE "failed"

\* ------------------------------------------------------------------- state
VARIABLES
    chart,      \* default values of the release's chart
    stored,     \* the release's stored config (Release.Config)
    args,       \* per process: the command line (flags and --set entries)
    u,          \* per process: the istioUpgradeCmd fields
    pc,         \* per process: position in run()
    values,     \* per process: the coalesced values read in run()
    opts,       \* per process: istioUpgradeOptions
    step,       \* per process: loop variable of the traffic loop
    calls,      \* per process: client calls of the current invocation
    naps,       \* per process: the naps taken in the current invocation
    err,        \* per process: the error run() returned
    runs,       \* per process: invocations started
    exists,     \* a release of the given name exists
    hist        \* per process: the labels of its successful rollouts, in order

vars == <<chart, stored, args, u, pc, values, opts, step, calls, naps, err, runs,
          exists, hist>>

\* --------------------------------------------------------------- inputs
Other(label) == IF label = "vx" THEN "vy" ELSE "vx"

\* a release whose variant cv serves all traffic
FreshConfig(cv, rc) ==
    [k \in {CurrentVersionKey, ReplicaCountKey, TrafficWeightKey(cv),
            TrafficWeightKey(Other(cv))} |->
        IF k = CurrentVersionKey THEN Str(cv)
        ELSE IF k = ReplicaCountKey THEN rc
        ELSE IF k = TrafficWeightKey(cv) THEN Num(100)
        ELSE Num(0)]

DefaultChart == FreshConfig("vx", Num(1))

Charts == {EmptyConfig, DefaultChart}

StoredConfigs ==
    {EmptyConfig}
    \cup {FreshConfig(cv, Num(r)) : cv \in {"vx", "vy"}, r \in 1..MaxReplicas}
    \cup {FreshConfig("vz", Num(1))}
    \cup {FreshConfig("vx", Half(5)), FreshConfig("vy", Half(-3))}
    \cup {[k \in {CurrentVersionKey} |-> Str("vx")],
          [k \in {ReplicaCountKey} |-> Num(1)],
          FreshConfig("vx", Str("many")),
          [FreshConfig("vx", Num(1)) EXCEPT ![CurrentVersionKey] = Num(1)]}

SetEntries ==
    { << Pair(<<"image", "tag">>, Str("v2")) >>,
      << Pair(TrafficWeightKey("vy"), Num(50)) >>,
      << Pair(CurrentVersionKey, Str("vx")),
         Pair(<<"sidecar", "image", "repository">>, Str("r")) >> }

RECURSIVE SeqsUpTo(_, _)
SeqsUpTo(S, n) ==
    IF n = 0 THEN {<<>>}
    ELSE SeqsUpTo(S, n - 1)
         \cup {Append(q, x) : q \in {r \in SeqsUpTo(S, n - 1) : Len(r) = n - 1}, x \in S}

\* the command lines: every combination of the value flags and --set lists,
\* and --install on the command lines without --set
CommandLines ==
    {c \in [dryRun : BOOLEAN, resetValues : BOOLEAN, reuseValues : BOOLEAN,
            install : BOOLEAN, values : SeqsUpTo(SetEntries, MaxValues)] :
        c.install => c.values = <<>>}

NoCommand ==
    [dryRun |-> FALSE, resetValues |-> FALSE, reuseValues |-> FALSE,
     install |-> FALSE, values |-> <<>>]

\* one operator runs the command, one after the other
Init ==
    /\ chart \in Charts
    /\ exists \in BOOLEAN
    /\ stored \in (IF exists THEN StoredConfigs ELSE {EmptyConfig})
    /\ \E c \in CommandLines : args = [p \in Procs |-> IF p = 1 THEN c ELSE NoCommand]
    /\ u = [p \in Procs |-> NoCommand]
    /\ pc = [p \in Procs |-> IF p = 1 THEN "idle" ELSE "off"]
    /\ values = [p \in Procs |-> EmptyConfig]
    /\ opts = [p \in Procs |-> NoOpts]
    /\ step = [p \in Procs |-> 0]
    /\ calls = [p \in Procs |-> <<>>]
    /\ naps = [p \in Procs |-> <<>>]
    /\ err = [p \in Procs |-> NoErr]
    /\ runs = [p \in Procs |-> 0]
    /\ hist = [p \in Procs |-> <<>>]

\* -------------------------------------------------------------- actions
Ended(p) == pc[p] \in {"done", "failed", "panicked"}

\* RunE: a new invocation of the command with the process's command line
Invoke(p) ==
    /\ pc[p] = "idle" \/ Ended(p)
    /\ runs[p] < MaxRuns
    /\ runs' = [runs EXCEPT ![p] = @ + 1]
    /\ u' = [u EXCEPT ![p] = args[p]]
    /\ pc' = [pc EXCEPT ![p] = "locate"]
    /\ values' = [values EXCEPT ![p] = EmptyConfig]
    /\ opts' = [opts EXCEPT ![p] = NoOpts]
    /\ step' = [step EXCEPT ![p] = 0]
    /\ calls' = [calls EXCEPT ![p] = <<>>]
    /\ naps' = [naps EXCEPT ![p] = <<>>]
    /\ err' = [err EXCEPT ![p] = NoErr]
    /\ UNCHANGED <<exists, hist, chart, stored, args>>

LocateOutcomes ==
    {"ok", "requirementsNotFound", "locateChartPath", "chartLoad",
     "loadRequirements", "checkDependencies"}

\* lines 243-259: chart resolution, chart load, dependency check
LocateError(outcome) ==
    IF outcome = "chartLoad" THEN prettyError(PlainErr(outcome))
    ELSE PlainErr(outcome)

LocateOk_DependenciesUnchecked(outcome) ==
    outcome \in {"ok", "requirementsNotFound", "checkDependencies"}

\* the outcomes after which run() goes on: no error, or the chart has no
\* requirements file (line 254)
LocateOk(outcome) == outcome \in {"ok", "requirementsNotFound"}

LocateChart(p) ==
    /\ pc[p] = "locate"
    /\ \E outcome \in LocateOutcomes :
         /\ pc' = [pc EXCEPT ![p] = IF LocateOk(outcome) THEN "content" ELSE "failed"]
         /\ err' = IF outcome \in {"ok", "requirementsNotFound"} THEN err
                   ELSE [err EXCEPT ![p] = LocateError(outcome)]
    /\ UNCHANGED <<exists, hist, chart, stored, args, u, values, opts, step, calls, naps, runs>>

\* lines 261-274: ReleaseContent and the coalesced values of its result
ReleaseContent(p) ==
    /\ pc[p] = "content"
    /\ \E ok \in (IF exists THEN BOOLEAN ELSE {FALSE}) :
         IF ok
         THEN /\ calls' = [calls EXCEPT ![p] = Append(@, ContentCall)]
              /\ values' = [values EXCEPT ![p] = CoalesceValues(chart, stored)]
              /\ pc' = [pc EXCEPT ![p] = "derive"]
              /\ err' = err
         ELSE /\ calls' = [calls EXCEPT ![p] = Append(@, Failed(ContentCall))]
              /\ values' = values
              /\ pc' = [pc EXCEPT ![p] = "failed"]
              /\ err' = [err EXCEPT ![p] = prettyError(RpcErr("ReleaseContent"))]
    /\ UNCHANGED <<exists, hist, chart, stored, args, u, opts, step, naps, runs>>

\* lines 276-287: a failed type assertion panics
DeriveOpts(p) ==
    /\ pc[p] = "derive"
    /\ IF ConfigShapeOK(values[p])
       THEN /\ opts' = [opts EXCEPT ![p] = DeriveOptions(values[p])]
            /\ pc' = [pc EXCEPT ![p] = "deploy"]
       ELSE /\ opts' = opts
            /\ pc' = [pc EXCEPT ![p] = "panicked"]
    /\ UNCHANGED <<exists, hist, chart, stored, args, u, values, step, calls, naps, err, runs>>

UpdateOutcomes == {"ok", "vals", "UpdateRelease"}

\* One UpdateRelease of run(): vals() of the entries vv, the call with the
\* given options, and the handling of its result.
Update(p, phase, stepNo, vv, dryRun, resetValues, reuseValues, next) ==
    \E outcome \in UpdateOutcomes :
        LET call == UpdateCall(phase, stepNo, vv, dryRun, resetValues, reuseValues)
        IN  IF outcome = "vals"
            THEN /\ pc' = [pc EXCEPT ![p] = "failed"]
                 /\ err' = [err EXCEPT ![p] = PlainErr("vals")]
                 /\ UNCHANGED <<calls, stored>>
            ELSE /\ pc' = [pc EXCEPT ![p] = AfterUpdate(outcome = "ok", next)]
                 /\ IF outcome = "ok"
                    THEN /\ calls' = [calls EXCEPT ![p] = Append(@, call)]
                         /\ stored' = UpdateStore(stored, call.overrides, dryRun,
                                                  resetValues, reuseValues)
                         /\ err' = err
                    ELSE /\ calls' = [calls EXCEPT ![p] = Append(@, Failed(call))]
                         /\ stored' = stored
                         /\ err' = [err EXCEPT ![p] =
                                UpgradeFailed(prettyError(RpcErr("UpdateRelease")))]

FixedOptions_NoReuse ==
    [dryRun |-> FALSE, resetValues |-> FALSE, reuseValues |-> FALSE]

\* the options of the traffic and wrap-up updates (lines 153-157, 224-228):
\* helm.ReuseValues(true) and nothing else
FixedOptions ==
    [dryRun |-> FALSE, resetValues |-> FALSE, reuseValues |-> TRUE]

OverridesFor_EntryOnly(userValues, entry) == <<entry>>

\* append(u.values, entry) of lines 146, 182, 218
OverridesFor(userValues, entry) == Append(userValues, entry)

\* lines 173-213
deployTargetVersion(p) ==
    /\ pc[p] = "deploy"
    /\ LET rewritten == RewriteValues(u[p].values, opts[p].targetVersion)
       IN  /\ u' = [u EXCEPT ![p].values = rewritten]
           /\ Update(p, "deploy", 0, OverridesFor(rewritten, DeployEntry(opts[p])),
                     u[p].dryRun, u[p].resetValues, u[p].reuseValues, "napDeploy")
    /\ UNCHANGED <<exists, hist, chart, args, values, opts, step, naps, runs>>

\* nap(out, seconds), taken after the given number of client calls
Nap(after, seconds) == [after |-> after, seconds |-> seconds]

NapAfterDeploy_Skipped(p) ==
    /\ pc[p] = "napDeploy"
    /\ step' = [step EXCEPT ![p] = 1]
    /\ pc' = [pc EXCEPT ![p] = IF LoopContinues(1) THEN "traffic" ELSE "wrapup"]
    /\ UNCHANGED <<exists, hist, chart, stored, args, u, values, opts, calls, naps,
                   err, runs>>

\* lines 294-299: the nap after the deploy, then the loop starts at step 1
NapAfterDeploy(p) ==
    /\ pc[p] = "napDeploy"
    /\ naps' = [naps EXCEPT ![p] = Append(@, Nap(Len(calls[p]), NapSeconds))]
    /\ step' = [step EXCEPT ![p] = 1]
    /\ pc' = [pc EXCEPT ![p] = IF LoopContinues(1) THEN "traffic" ELSE "wrapup"]
    /\ UNCHANGED <<exists, hist, chart, stored, args, u, values, opts, calls, err, runs>>

\* lines 141-161
switchTraffic(p) ==
    /\ pc[p] = "traffic"
    /\ Update(p, "traffic", step[p],
              OverridesFor(u[p].values, TrafficEntry(opts[p], step[p])),
              FixedOptions.dryRun, FixedOptions.resetValues, FixedOptions.reuseValues,
              "napTraffic")
    /\ UNCHANGED <<exists, hist, chart, args, u, values, opts, step, naps, runs>>

\* lines 166-169 and 299: the nap that ends switchTraffic, then step++
NapAfterTraffic(p) ==
    /\ pc[p] = "napTraffic"
    /\ naps' = [naps EXCEPT ![p] = Append(@, Nap(Len(calls[p]), NapSeconds))]
    /\ step' = [step EXCEPT ![p] = NextStep(@)]
    /\ pc' = [pc EXCEPT ![p] = IF LoopContinues(NextStep(step[p]))
                                   THEN "traffic" ELSE "wrapup"]
    /\ UNCHANGED <<exists, hist, chart, stored, args, u, values, opts, calls, err, runs>>

\* lines 215-240
wrapUp(p) ==
    /\ pc[p] = "wrapup"
    /\ Update(p, "wrapup", 0, OverridesFor(u[p].values, WrapUpEntry(opts[p])),
              FixedOptions.dryRun, FixedOptions.resetValues, FixedOptions.reuseValues,
              "status")
    /\ UNCHANGED <<exists, hist, chart, args, u, values, opts, step, naps, runs>>

AfterStatus_ErrorDropped(ok) == "done"

\* lines 313-318: the error of ReleaseStatus is returned
AfterStatus(ok) == IF ok THEN "done" ELSE "failed"

\* a rollout that ran to its end, with the labels it used
Rollout(run, o) ==
    [run |-> run, currentVersion |-> o.currentVersion, targetVersion |-> o.targetVersion]

\* lines 311-318
ReleaseStatus(p) ==
    /\ pc[p] = "status"
    /\ \E ok \in BOOLEAN :
         /\ pc' = [pc EXCEPT ![p] = AfterStatus(ok)]
         /\ IF ok
            THEN /\ calls' = [calls EXCEPT ![p] = Append(@, StatusCall)]
                 /\ err' = err
                 /\ hist' = [hist EXCEPT ![p] = Append(@, Rollout(runs[p], opts[p]))]
            ELSE /\ calls' = [calls EXCEPT ![p] = Append(@, Failed(StatusCall))]
                 /\ err' = [err EXCEPT ![p] = prettyError(RpcErr("ReleaseStatus"))]
                 /\ hist' = hist
    /\ UNCHANGED <<exists, chart, stored, args, u, values, opts, step, naps, runs>>

Next ==
    \E p \in Procs :
        \/ Invoke(p)
        \/ LocateChart(p)
        \/ ReleaseContent(p)
        \/ DeriveOpts(p)
        \/ deployTargetVersion(p)
        \/ NapAfterDeploy(p)
        \/ switchTraffic(p)
        \/ NapAfterTraffic(p)
        \/ wrapUp(p)
        \/ ReleaseStatus(p)

Spec == Init /\ [][Next]_vars

\* Two operators run the command against the one release at the same time,
\* each with or without --reuse-values, each making one invocation (the last
\* of its MaxRuns).
InitConc ==
    /\ chart = DefaultChart
    /\ exists = TRUE
    /\ stored = FreshConfig("vx", Num(1))
    /\ args \in [Procs -> {c \in CommandLines :
                              c.values = <<>> /\ ~c.dryRun /\ ~c.resetValues
                              /\ ~c.install}]
    /\ u = [p \in Procs |-> NoCommand]
    /\ pc = [p \in Procs |-> "idle"]
    /\ values = [p \in Procs |-> EmptyConfig]
    /\ opts = [p \in Procs |-> NoOpts]
    /\ step = [p \in Procs |-> 0]
    /\ calls = [p \in Procs |-> <<>>]
    /\ naps = [p \in Procs |-> <<>>]
    /\ err = [p \in Procs |-> NoErr]
    /\ runs = [p \in Procs |-> MaxRuns - 1]
    /\ hist = [p \in Procs |-> <<>>]

SpecConc == InitConc /\ [][Next]_vars

\* The invocations of an installed release with no --set entries.
InitLive ==
    /\ Init
    /\ exists
    /\ args[1].values = <<>>
    /\ ~args[1].install

\* a step of run() once invoked: a client call or a nap that returns
RunStep(p) ==
    \/ LocateChart(p)
    \/ ReleaseContent(p)
    \/ DeriveOpts(p)
    \/ deployTargetVersion(p)
    \/ NapAfterDeploy(p)
    \/ switchTraffic(p)
    \/ NapAfterTraffic(p)
    \/ wrapUp(p)
    \/ ReleaseStatus(p)

\* run() is sequential code: when every call and every nap returns, its
\* next step is eventually taken.
FairSpec == InitLive /\ [][Next]_vars /\ \A p \in Procs : WF_vars(RunStep(p))

TypeOK ==
    /\ \A p \in Procs : step[p] \in 0..(maxSteps + 2)
    /\ \A p \in Procs : runs[p] \in 0..MaxRuns

\* ------------------------------------------------------------ properties
\* run() got past the derivation of its options
Derived(p) == opts[p].targetVersion # ""

AllOk(cs) == \A i \in 1..Len(cs) : cs[i].ok

Sig(c) == <<c.op, c.phase, c.step>>

\* the client calls of a rollout, in order
ExpectedCalls ==
    << <<"ReleaseContent", "content", 0>>,
       <<"UpdateRelease", "deploy", 0>>,
       <<"UpdateRelease", "traffic", 1>>,
       <<"UpdateRelease", "traffic", 2>>,
       <<"UpdateRelease", "traffic", 3>>,
       <<"UpdateRelease", "traffic", 4>>,
       <<"UpdateRelease", "traffic", 5>>,
       <<"UpdateRelease", "wrapup", 0>>,
       <<"ReleaseStatus", "status", 0>> >>

ExpectedWeights == << <<20, 80>>, <<40, 60>>, <<60, 40>>, <<80, 20>>, <<100, 0>> >>

\* the replica count the run read is a whole number
WholeReplicaCount(p) ==
    /\ Get(values[p], ReplicaCountKey).kind = "number"
    /\ Get(values[p], ReplicaCountKey).h % 2 = 0

\* C1: when every client call succeeds and the run read currentVersion "vx"
\* and replicaCount N, its calls are, in order, ReleaseContent, the deploy
\* update carrying vy.replicaCount=N, the traffic updates of steps 1..5 with
\* weights 20/80, 40/60, 60/40, 80/20, 100/0, the wrap-up update and
\* ReleaseStatus: at every moment the calls made are a prefix of this list,
\* and the finished run has made all nine.
C1_CallSequence ==
    \A p \in Procs :
        (/\ Derived(p)
         /\ Get(values[p], CurrentVersionKey) = Str("vx")
         /\ WholeReplicaCount(p)
         /\ AllOk(calls[p]))
        => /\ Len(calls[p]) <= Len(ExpectedCalls)
           /\ \A i \in 1..Len(calls[p]) : Sig(calls[p][i]) = ExpectedCalls[i]
           /\ Len(calls[p]) >= 2 =>
                Get(calls[p][2].overrides, <<"vy", "replicaCount">>)
                    = Get(values[p], ReplicaCountKey)
           /\ \A k \in 1..5 :
                Len(calls[p]) >= 2 + k =>
                    /\ Get(calls[p][2 + k].overrides, <<"vy", "trafficWeight">>)
                           = Num(ExpectedWeights[k][1])
                    /\ Get(calls[p][2 + k].overrides, <<"vx", "trafficWeight">>)
                           = Num(ExpectedWeights[k][2])
           /\ pc[p] = "done" => Len(calls[p]) = 9

C1_Witness ==
    /\ pc[1] = "done"
    /\ Get(values[1], CurrentVersionKey) = Str("vx")
    /\ Get(values[1], ReplicaCountKey) = Num(3)
    /\ Len(calls[1]) = 9
    /\ AllOk(calls[1])

\* C2: a failed UpdateRelease (deploy, any traffic step, wrap-up) is the last
\* client call of the run, and run() has returned an error with the
\* "UPGRADE FAILED:" prefix.
C2_UpdateFailureStops ==
    \A p \in Procs : \A i \in 1..Len(calls[p]) :
        (calls[p][i].op = "UpdateRelease" /\ ~calls[p][i].ok)
        => /\ i = Len(calls[p])
           /\ pc[p] = "failed"
           /\ err[p].prefixed

\* step 3 failed; the weights of step 2 are still in the store
C2_Witness ==
    /\ pc[1] = "failed"
    /\ Len(calls[1]) = 5
    /\ Sig(calls[1][5]) = <<"UpdateRelease", "traffic", 3>>
    /\ ~calls[1][5].ok
    /\ Get(stored, TrafficWeightKey(opts[1].targetVersion)) = Num(40)

\* C3: every traffic update is for a step in 1..5 and carries, in the one
\* call, target weight 20*step and current weight 100 - 20*step; both lie in
\* 0..100, they sum to 100, and step 5 carries 100 and 0.
C3_TrafficWeights ==
    \A p \in Procs : \A i \in 1..Len(calls[p]) :
        calls[p][i].phase = "traffic"
        => LET c == calls[p][i]
               t == Get(c.overrides, TrafficWeightKey(opts[p].targetVersion))
               w == Get(c.overrides, TrafficWeightKey(opts[p].currentVersion))
           IN  /\ c.step \in 1..5
               /\ t = Num(20 * c.step)
               /\ w = Num(100 - 20 * c.step)
               /\ t.h \in 0..200 /\ w.h \in 0..200
               /\ t.h + w.h = 200
               /\ c.step = 5 => (t = Num(100) /\ w = Num(0))

\* step 5 was issued although --set carries a traffic weight of its own
C3_Witness ==
    /\ Len(calls[1]) >= 7
    /\ Sig(calls[1][7]) = <<"UpdateRelease", "traffic", 5>>
    /\ TrafficWeightKey("vy") \in DOMAIN vals(u[1].values)

\* C4: when the currentVersion the run read is "vx" or "vy", the run's
\* currentVersion is that label and its targetVersion is the other one, and
\* no step of the run changes either.
C4_Labels ==
    \A p \in Procs :
        (Derived(p) /\ Get(values[p], CurrentVersionKey).s \in {"vx", "vy"})
        => /\ opts[p].currentVersion = Get(values[p], CurrentVersionKey).s
           /\ opts[p].currentVersion = "vx" => opts[p].targetVersion = "vy"
           /\ opts[p].currentVersion = "vy" => opts[p].targetVersion = "vx"
           /\ opts[p].targetVersion # opts[p].currentVersion
           /\ opts[p].targetVersion \in {"vx", "vy"}

C4_LabelsFixed ==
    \A p \in Procs : (Derived(p) /\ Derived(p)') => opts'[p] = opts[p]

\* C4: the labels are the complementary pair of {vx, vy} in every state of
\* a run that read one of the two, and stay what they were derived to be.
C4_Complement == []C4_Labels /\ [][C4_LabelsFixed]_vars

C4_Witness ==
    /\ pc[1] = "done"
    /\ opts[1].currentVersion = "vy"
    /\ opts[1].targetVersion = "vx"

\* C5: every wrap-up update sets <current>.replicaCount to 0 and
\* currentVersion to the target, for the labels the run derived from the
\* configuration it read; it directly follows a successful traffic step 5;
\* and when the run read currentVersion "vx", once wrap-up has succeeded the
\* release's values hold currentVersion "vy" and vx.replicaCount 0.
C5_WrapUp ==
    \A p \in Procs : \A i \in 1..Len(calls[p]) :
        calls[p][i].phase = "wrapup"
        => /\ Get(calls[p][i].overrides,
                  VariantReplicaKey(Get(values[p], CurrentVersionKey).s)) = Num(0)
           /\ Get(calls[p][i].overrides, CurrentVersionKey) = Str(opts[p].targetVersion)
           /\ i > 1
           /\ Sig(calls[p][i - 1]) = <<"UpdateRelease", "traffic", 5>>
           /\ calls[p][i - 1].ok
           /\ (calls[p][i].ok /\ Get(values[p], CurrentVersionKey) = Str("vx"))
              => /\ Get(CoalesceValues(chart, stored), CurrentVersionKey) = Str("vy")
                 /\ Get(CoalesceValues(chart, stored), <<"vx", "replicaCount">>) = Num(0)

\* a finished run whose --set names currentVersion itself
C5_Witness ==
    /\ pc[1] = "done"
    /\ Get(values[1], CurrentVersionKey) = Str("vx")
    /\ Get(vals(u[1].values), CurrentVersionKey) = Str("vx")
    /\ Get(stored, CurrentVersionKey) = Str("vy")
    /\ Get(stored, <<"vx", "replicaCount">>) = Num(0)

\* the configuration the run read lacks currentVersion or replicaCount, or
\* holds one of them with the wrong type
BadShape(v) ==
    \/ Get(v, CurrentVersionKey).kind # "string"
    \/ Get(v, ReplicaCountKey).kind # "number"

\* C6: when the configuration the run read is malformed, the run goes no
\* further than the derivation of its options (it panics there): its only
\* client call is ReleaseContent and the release's values are still the ones
\* it read.
C6_MalformedConfig ==
    \A p \in Procs :
        (pc[p] \notin {"off", "idle", "locate", "content"}
         /\ Len(calls[p]) >= 1 /\ calls[p][1].ok
         /\ BadShape(values[p]))
        => /\ pc[p] \in {"derive", "panicked"}
           /\ calls[p] = <<ContentCall>>
           /\ CoalesceValues(chart, stored) = values[p]

\* currentVersion is fine, replicaCount is a string
C6_Witness ==
    /\ pc[1] = "panicked"
    /\ Get(values[1], CurrentVersionKey).kind = "string"
    /\ Get(values[1], ReplicaCountKey).kind = "string"
    /\ calls[1] = <<ContentCall>>

\* the label a key of the driver's own entries is prefixed with
DriverLabels(c) ==
    IF c.vv = <<>> THEN {}
    ELSE {c.vv[Len(c.vv)][j].k[1] : j \in 1..Len(c.vv[Len(c.vv)])}
         \ {"currentVersion"}

\* C7: whatever string is stored as currentVersion, the run's
\* (currentVersion, targetVersion) is ("vx", "vy") or ("vy", "vx"), and the
\* keys of the entries the driver adds to its updates are prefixed by "vx"
\* or "vy" only.
C7_TwoLabelsOnly ==
    \A p \in Procs :
        Derived(p)
        => /\ <<opts[p].currentVersion, opts[p].targetVersion>>
                  \in {<<"vx", "vy">>, <<"vy", "vx">>}
           /\ \A i \in 1..Len(calls[p]) : DriverLabels(calls[p][i]) \subseteq {"vx", "vy"}

\* C8: when a client call of the run failed, the error run() returned
\* carries the "UPGRADE FAILED: " prefix.
C8_EveryClientErrorPrefixed ==
    \A p \in Procs :
        (pc[p] = "failed" /\ Len(calls[p]) >= 1 /\ ~calls[p][Len(calls[p])].ok)
        => err[p].prefixed

\* C9: with --dry-run every UpdateRelease of the run is a dry run.
C9_DryRunEverywhere ==
    \A p \in Procs : \A i \in 1..Len(calls[p]) :
        (u[p].dryRun /\ calls[p][i].op = "UpdateRelease") => calls[p][i].dryRun

\* the deploy update has succeeded, the first traffic update has not
BeforeFirstShift(p) ==
    /\ Len(calls[p]) >= 2
    /\ calls[p][2].ok
    /\ Len(calls[p]) = 3 => ~calls[p][3].ok
    /\ Len(calls[p]) <= 3

\* C10: from the successful deploy until the first traffic update succeeds
\* the release's values give the target variant weight 0 and the current
\* variant weight 100.
C10_DeployAtZeroTraffic ==
    \A p \in Procs :
        (Derived(p) /\ BeforeFirstShift(p))
        => /\ Get(CoalesceValues(chart, stored),
                  TrafficWeightKey(opts[p].targetVersion)) = Num(0)
           /\ Get(CoalesceValues(chart, stored),
                  TrafficWeightKey(opts[p].currentVersion)) = Num(100)

\* process p has just made a successful update of the given phases
JustUpdated(p, phases) ==
    /\ Len(calls'[p]) = Len(calls[p]) + 1
    /\ calls'[p][Len(calls'[p])].op = "UpdateRelease"
    /\ calls'[p][Len(calls'[p])].phase \in phases
    /\ calls'[p][Len(calls'[p])].ok

LastCall(p) == calls'[p][Len(calls'[p])]

C11_Options ==
    \A p \in Procs : \A i \in 1..Len(calls[p]) :
        /\ calls[p][i].phase \in {"traffic", "wrapup"}
           => (calls[p][i].reuseValues /\ ~calls[p][i].resetValues)
        /\ calls[p][i].phase = "deploy"
           => /\ calls[p][i].reuseValues = u[p].reuseValues
              /\ calls[p][i].resetValues = u[p].resetValues

C11_Frame ==
    \A p \in Procs :
        JustUpdated(p, {"traffic", "wrapup"})
        => \A k \in DOMAIN stored :
              /\ k \in DOMAIN stored'
              /\ k \notin DOMAIN LastCall(p).overrides => stored'[k] = stored[k]

C11_ReplicaCountKept ==
    \A p \in Procs :
        (/\ Derived(p)
         /\ Len(calls[p]) >= 2
         /\ calls[p][2].ok
         /\ ~calls[p][2].dryRun
         /\ VariantReplicaKey(opts[p].targetVersion) \notin DOMAIN vals(u[p].values))
        => Get(stored, VariantReplicaKey(opts[p].targetVersion)) = Num(opts[p].replicaCount)

Settling(cs) ==
    {i \in 1..Len(cs) : cs[i].ok /\ cs[i].phase \in {"deploy", "traffic"}}

\* C12: every nap lasts 60 seconds and directly follows a successful deploy
\* or traffic update, before the next client call; each such update is
\* followed by exactly one nap; nothing else is (no failed call, not the
\* wrap-up); a run that succeeds has napped exactly 6 times.
C12_Naps ==
    \A p \in Procs :
        /\ Len(naps[p]) <= 6
        /\ \A j \in 1..Len(naps[p]) :
              /\ naps[p][j].seconds = 60
              /\ naps[p][j].after = j + 1
              /\ naps[p][j].after \in Settling(calls[p])
        /\ Len(naps[p]) = IF pc[p] \in {"napDeploy", "napTraffic"}
                          THEN Cardinality(Settling(calls[p])) - 1
                          ELSE Cardinality(Settling(calls[p]))
        /\ pc[p] = "done" => Len(naps[p]) = 6

C12_Witness ==
    /\ pc[1] = "done"
    /\ Len(naps[1]) = 6
    /\ naps[1][6] = Nap(7, 60)

\* the last client call of p's run is a failed ReleaseStatus
StatusFailed(p) ==
    /\ Len(calls[p]) >= 1
    /\ calls[p][Len(calls[p])].op = "ReleaseStatus"
    /\ ~calls[p][Len(calls[p])].ok

\* run() returned an error after the deploy, the five traffic updates and
\* the wrap-up had all succeeded
CompleteButFailed(p) ==
    /\ pc[p] = "failed"
    /\ err[p] # NoErr
    /\ Len(calls[p]) = 9
    /\ \A i \in 1..8 : calls[p][i].ok /\ Sig(calls[p][i]) = ExpectedCalls[i]

\* C13 as stated: when ReleaseStatus fails, run() returns an error, all seven
\* updates have succeeded before, and the store holds target weight 100,
\* replica count 0 for the old variant and the flipped currentVersion.
C13_StatusFailureAsStated ==
    \A p \in Procs :
        StatusFailed(p)
        => /\ CompleteButFailed(p)
           /\ Get(stored, TrafficWeightKey(opts[p].targetVersion)) = Num(100)
           /\ Get(stored, VariantReplicaKey(opts[p].currentVersion)) = Num(0)
           /\ Get(stored, CurrentVersionKey) = Str(opts[p].targetVersion)

\* What holds instead: the stored target weight is 100 only when the --set
\* entries do not name the target's trafficWeight; when they do, the wrap-up
\* update has stored their value over the 100 of step 5.
StatusFailureWeight ==
    \A p \in Procs :
        StatusFailed(p)
        => /\ CompleteButFailed(p)
           /\ Get(stored, TrafficWeightKey(opts[p].targetVersion))
                 = IF TrafficWeightKey(opts[p].targetVersion) \in DOMAIN vals(u[p].values)
                   THEN vals(u[p].values)[TrafficWeightKey(opts[p].targetVersion)]
                   ELSE Num(100)
           /\ Get(stored, VariantReplicaKey(opts[p].currentVersion)) = Num(0)
           /\ Get(stored, CurrentVersionKey) = Str(opts[p].targetVersion)

StatusFailureReached ==
    /\ StatusFailed(1)
    /\ pc[1] = "failed"
    /\ u[1].values = <<>>
    /\ Get(stored, TrafficWeightKey(opts[1].targetVersion)) = Num(100)
    /\ Get(stored, CurrentVersionKey) = Str(opts[1].targetVersion)

LocateFailures ==
    {"locateChartPath", "chartLoad", "loadRequirements", "checkDependencies"}

\* C14: when chart resolution, chart loading or the dependency check failed,
\* run() has returned with no client call made; when ReleaseContent failed
\* (an error, or no such release), run() has returned with that call as its
\* only one; and every UpdateRelease of a run comes after a successful
\* ReleaseContent.
C14_PreconditionsFirst ==
    \A p \in Procs :
        /\ err[p].kind \in LocateFailures
           => (pc[p] = "failed" /\ calls[p] = <<>>)
        /\ (Len(calls[p]) >= 1 /\ ~calls[p][1].ok)
           => (pc[p] = "failed" /\ calls[p] = <<Failed(ContentCall)>>)
        /\ (~exists /\ pc[p] \notin {"off", "idle", "locate", "content"})
           => (pc[p] = "failed" /\ \A i \in 1..Len(calls[p]) : calls[p][i].op # "UpdateRelease")
        /\ \A i \in 1..Len(calls[p]) :
              calls[p][i].op = "UpdateRelease" => (i >= 2 /\ calls[p][1] = ContentCall)

\* the dependency check failed
C14_Witness ==
    /\ pc[1] = "failed"
    /\ err[1].kind = "checkDependencies"
    /\ calls[1] = <<>>
    /\ exists

\* C15: with --install and no release of the given name, the run does not
\* fail on the missing release: it makes an install call.
C15_InstallWhenMissing ==
    \A p \in Procs :
        (u[p].install /\ ~exists /\ Len(calls[p]) >= 1)
        => /\ pc[p] # "failed"
           /\ \E i \in 1..Len(calls[p]) : calls[p][i].op = "InstallRelease"

\* rollouts i and i+1 of p's successful rollouts are successive invocations
Successive(p, i) ==
    /\ i + 1 <= Len(hist[p])
    /\ hist[p][i + 1].run = hist[p][i].run + 1

\* C16: of two successive successful rollouts, the first from "vx" or "vy",
\* the second has the labels of the first exchanged (its targetVersion is
\* the first one's currentVersion); when the first started from "vx", the
\* release's currentVersion is "vx" again once the second has finished.
C16_Alternation ==
    \A p \in Procs : \A i \in 1..Len(hist[p]) :
        (Successive(p, i) /\ hist[p][i].currentVersion \in {"vx", "vy"})
        => /\ hist[p][i + 1].currentVersion = hist[p][i].targetVersion
           /\ hist[p][i + 1].targetVersion = hist[p][i].currentVersion
           /\ (/\ pc[p] = "done"
               /\ runs[p] = hist[p][i + 1].run
               /\ hist[p][i].currentVersion = "vx")
              => Get(CoalesceValues(chart, stored), CurrentVersionKey) = Str("vx")

C16_Witness ==
    /\ pc[1] = "done"
    /\ Len(hist[1]) = 2
    /\ hist[1][1] = Rollout(1, [currentVersion |-> "vx", targetVersion |-> "vy"])
    /\ hist[1][2] = Rollout(2, [currentVersion |-> "vy", targetVersion |-> "vx"])
    /\ Get(stored, CurrentVersionKey) = Str("vx")

Running(p) == pc[p] \notin {"off", "idle"} /\ ~Ended(p)

CountOp(cs, op) == Cardinality({i \in 1..Len(cs) : cs[i].op = op})

\* a finished run: success after 1 ReleaseContent, 7 UpdateRelease and
\* 1 ReleaseStatus, or a failure with no call after the one that erred
C17_Outcome ==
    \A p \in Procs :
        /\ pc[p] = "done"
           => /\ Len(calls[p]) = 9
              /\ AllOk(calls[p])
              /\ CountOp(calls[p], "ReleaseContent") = 1
              /\ CountOp(calls[p], "UpdateRelease") = 7
              /\ CountOp(calls[p], "ReleaseStatus") = 1
        /\ \A i \in 1..Len(calls[p]) :
               ~calls[p][i].ok => (i = Len(calls[p]) /\ pc[p] = "failed")
        /\ Cardinality({i \in 1..Len(calls[p]) : calls[p][i].phase = "traffic"})
               <= 5
        /\ \A i, j \in 1..Len(calls[p]) :
               i < j => Sig(calls[p][i]) # Sig(calls[p][j])

\* C17: when every client call and every nap returns, every run ends: in
\* success after exactly 9 client calls (1 ReleaseContent, 7 UpdateRelease,
\* 1 ReleaseStatus) or in failure at the first error, the erring call being
\* its last; the loop makes at most 5 traffic calls and no call is repeated.
C17_Terminates ==
    /\ []C17_Outcome
    /\ \A p \in Procs : Running(p) ~> Ended(p)

C17_Witness ==
    /\ pc[1] = "failed"
    /\ Len(calls[1]) = 5
    /\ calls[1][5].phase = "traffic"
    /\ calls[1][5].step = 3
    /\ ~calls[1][5].ok
    /\ AllOk(SubSeq(calls[1], 1, 4))

\* the target traffic weight an update call of p carries
SentTargetWeight(p, c) == Get(c.overrides, TrafficWeightKey(opts[p].targetVersion))

\* within one invocation the target weight sent grows with every traffic call
C18_Increasing ==
    \A p \in Procs : \A i, j \in 1..Len(calls[p]) :
        (i < j /\ calls[p][i].phase = "traffic" /\ calls[p][j].phase = "traffic")
        => SentTargetWeight(p, calls[p][i]).h < SentTargetWeight(p, calls[p][j]).h

\* an invocation at an update is never held back by the other invocation
C18_NoLock ==
    \A p \in Procs :
        /\ pc[p] = "deploy" => ENABLED deployTargetVersion(p)
        /\ pc[p] = "traffic" => ENABLED switchTraffic(p)
        /\ pc[p] = "wrapup" => ENABLED wrapUp(p)

\* a successful traffic update stores the weight it sent, whatever the
\* other invocation stored before
C18_LastWriter ==
    \A p \in Procs :
        JustUpdated(p, {"traffic"})
        => Get(stored', TrafficWeightKey(opts[p].targetVersion))
               = Num(20 * LastCall(p).step)

\* C18: nothing locks the release: an invocation at an update can always make
\* it, wherever the other invocation is, and the update stores the weight it
\* carries; within one invocation the target weight sent strictly increases.
C18_Interleaving ==
    /\ [](C18_Increasing /\ C18_NoLock)
    /\ [][C18_LastWriter]_vars

\* both invocations are between deploy and wrap-up, the first has had its
\* 60/40 shift applied, and the release holds the 20/80 shift of the second
C18_Witness ==
    /\ pc[1] = "napTraffic" /\ step[1] = 3
    /\ pc[2] = "napTraffic" /\ step[2] = 1
    /\ opts[1].targetVersion = "vy" /\ opts[2].targetVersion = "vy"
    /\ AllOk(calls[1]) /\ AllOk(calls[2])
    /\ SentTargetWeight(1, calls[1][Len(calls[1])]) = Num(60)
    /\ Get(stored, TrafficWeightKey("vy")) = Num(20)
    /\ Get(stored, TrafficWeightKey("vx")) = Num(80)

\* the driver's own entry of an update call of p
DriverEntry(p, c) ==
    IF c.phase = "deploy" THEN DeployEntry(opts[p])
    ELSE IF c.phase = "traffic" THEN TrafficEntry(opts[p], c.step)
    ELSE WrapUpEntry(opts[p])

\* the user's list of p as the deploy phase leaves it: as many entries with
\* as many pairs, every value kept, a key image.tag or image.repository
\* under the target label
RewrittenOnce(p) ==
    /\ u[p].values = RewriteValues(args[p].values, opts[p].targetVersion)
    /\ Len(u[p].values) = Len(args[p].values)
    /\ \A j \in 1..Len(args[p].values) :
           /\ Len(u[p].values[j]) = Len(args[p].values[j])
           /\ \A k \in 1..Len(args[p].values[j]) :
                  LET old == args[p].values[j][k]
                      new == u[p].values[j][k]
                  IN  /\ new.v = old.v
                      /\ old.k \in {<<"image", "tag">>, <<"image", "repository">>}
                         => new.k = <<opts[p].targetVersion>> \o old.k
                      /\ Len(old.k) < 2 => new.k = old.k

C19_Sent ==
    \A p \in Procs :
        /\ pc[p] \in {"locate", "content", "derive", "deploy"}
           => u[p].values = args[p].values
        /\ (Len(calls[p]) >= 2 /\ calls[p][2].op = "UpdateRelease")
           => RewrittenOnce(p)
        /\ \A i \in 1..Len(calls[p]) :
               calls[p][i].op = "UpdateRelease"
               => LET c == calls[p][i]
                  IN  /\ Len(c.vv) = Len(args[p].values) + 1
                      /\ SubSeq(c.vv, 1, Len(c.vv) - 1) = u[p].values
                      /\ c.vv[Len(c.vv)] = DriverEntry(p, c)

\* only the deploy step (and the start of a new invocation) changes the list
C19_Frame ==
    \A p \in Procs :
        u'[p].values # u[p].values => (pc[p] = "deploy" \/ pc'[p] = "locate")

\* C19: the --set list is rewritten once, by the deploy phase (image.tag and
\* image.repository keys put under the target label); every UpdateRelease
\* call carries that rewritten list unchanged, followed by the driver's own
\* entry as last element; no later phase lengthens or rewrites the list.
C19_UserOverridesResent ==
    /\ []C19_Sent
    /\ [][C19_Frame]_vars

C19_Witness ==
    /\ pc[1] = "done"
    /\ opts[1].targetVersion = "vy"
    /\ args[1].values = << << Pair(<<"image", "tag">>, Str("v2")) >> >>
    /\ \A i \in 2..8 :
           calls[1][i].vv = << << Pair(<<"vy", "image", "tag">>, Str("v2")) >>,
                               DriverEntry(1, calls[1][i]) >>

====
